---------------------------- MODULE Spec2Model ----------------------------
(***************************************************************************)
(* audiohal: the PortAudio backend's process-wide lock (global_lock), the  *)
(* Format -> PaSampleFormat conversion, and the defaults of StreamOptions. *)
(*                                                                         *)
(* Threads call global_lock() to obtain the guard of the one lazily        *)
(* created Mutex, run a native host-level call while holding it, and drop  *)
(* the guard.  std::sync::Mutex is modelled by what it does: lock() blocks *)
(* until the raw lock is free, then reports the poison flag; a guard       *)
(* dropped while its thread is panicking sets the poison flag before it    *)
(* unlocks; lock() on a mutex the calling thread already holds never       *)
(* returns (it deadlocks or panics, unspecified which).                    *)
(***************************************************************************)
EXTENDS Naturals, FiniteSets, Sequences, TLC

\* Number of threads that may call into the host library.
NThreads == 3

Threads == 1..NThreads

\* No thread: the raw lock is free / the Once has no running initializer.
NoThread == 0

\* The message global_lock() panics with when lock() reports poisoning.
ExpectMsg == "A PortAudio host thread has panicked. Aborting."

\* Any other panic payload (a panic raised inside a guarded call).
OtherMsg == "panic inside a guarded call"

VARIABLES
    pc,          \* pc[t]: where thread t is
    once,        \* the lazy_static's Once: "incomplete", "running", "complete"
    created,     \* how many times Mutex::new(()) has run for GLOBAL_LOCK
    everCalled,  \* TRUE once some thread has called global_lock()
    owner,       \* the thread holding the raw lock, or NoThread
    poisoned,    \* the Mutex's poison flag
    result,      \* result[t]: what lock() returned to t: "none", "Ok", "Err"
    guards,      \* guards[t]: how many LockGuard values thread t holds
    panicMsg,    \* panicMsg[t]: payload of t's panic, "" when t has not panicked
    conv,        \* the last (at most two) Format conversions, newest first
    opts         \* the last StreamOptions built, with its frame type, or NoOptions

lockVars == <<pc, once, created, everCalled, owner, poisoned, result, guards, panicMsg>>
pureVars == <<conv, opts>>
vars == <<pc, once, created, everCalled, owner, poisoned, result, guards, panicMsg,
          conv, opts>>

\* Positions of a thread.
\*   idle         outside global_lock(), holding no guard
\*   deref        in global_lock(), dereferencing GLOBAL_LOCK
\*   initializing running Mutex::new(()) as the Once's initializer
\*   lock         in GLOBAL_LOCK.lock(), waiting for the raw lock
\*   expect       lock() has returned; about to run .expect(..)
\*   guarded      global_lock() has returned the guard to its caller
\*   native       inside the guarded native host-level call
\*   relock       called global_lock() again while still holding the guard
\*   deadlocked   blocked for ever on the mutex it holds itself
\*   unwinding    panicking with the guard in scope, guard not yet dropped
\*   unlocking    the guard's drop has set the poison flag, not yet unlocked
\*   dead         terminated by a panic
Positions == {"idle", "deref", "initializing", "lock", "expect", "guarded", "native",
              "relock", "deadlocked", "unwinding", "unlocking", "dead"}

-----------------------------------------------------------------------------
(* Format and its conversion to the native sample format.                  *)

\* enum Format
Format == {"F32", "I32", "I24", "I16", "I8", "U8"}

Ok(v) == [ok |-> TRUE, value |-> v]
IncompatibleFormat(format) == [kind |-> "IncompatibleFormat", format |-> format]
Err(e) == [ok |-> FALSE, value |-> e]

\* Two arms exchanged: the signed and unsigned 8-bit codes swapped.
TryFromSwapped(format) ==
    CASE format = "F32" -> Ok("paFloat32")
      [] format = "I32" -> Ok("paInt32")
      [] format = "I24" -> Ok("paInt24")
      [] format = "I16" -> Ok("paInt16")
      [] format = "I8"  -> Ok("paUInt8")
      [] format = "U8"  -> Ok("paInt8")
      [] OTHER          -> Err(IncompatibleFormat(format))

\* A copy-paste slip in the match: I24 mapped to the 32-bit code.
TryFromArmSlip(format) ==
    CASE format = "F32" -> Ok("paFloat32")
      [] format = "I32" -> Ok("paInt32")
      [] format = "I24" -> Ok("paInt32")
      [] format = "I16" -> Ok("paInt16")
      [] format = "I8"  -> Ok("paInt8")
      [] format = "U8"  -> Ok("paUInt8")
      [] OTHER          -> Err(IncompatibleFormat(format))

\* impl TryFrom<crate::Format> for ffi::PaSampleFormat
TryFrom(format) ==
    CASE format = "F32" -> Ok("paFloat32")
      [] format = "I32" -> Ok("paInt32")
      [] format = "I24" -> Ok("paInt24")
      [] format = "I16" -> Ok("paInt16")
      [] format = "I8"  -> Ok("paInt8")
      [] format = "U8"  -> Ok("paUInt8")
      [] OTHER          -> Err(IncompatibleFormat(format))

-----------------------------------------------------------------------------
(* StreamOptions and its Default implementation.                           *)

\* The sample types that implement HasDefaultFormat.
Samples == {"f32", "i16"}

\* The array arities that implement HasDefaultNChannels.
Arities == {1, 2}

None == [some |-> FALSE]
NoOptions == [built |-> FALSE]

\* A swapped constant: every sample type declared as the float format.
FORMATAllFloat(sample) == "F32"

\* HasDefaultFormat::FORMAT
FORMAT(sample) ==
    CASE sample = "f32" -> "F32"
      [] sample = "i16" -> "I16"

\* A copied impl: the two-element array left with the one-element constant.
N_CHANNELSCopied(arity) == 1

\* HasDefaultNChannels::N_CHANNELS
N_CHANNELS(arity) ==
    CASE arity = 1 -> 1
      [] arity = 2 -> 2

\* A default that fixes a rate instead of deferring to the device.
SampleRateDefaultExact == [kind |-> "Exact", rate |-> 44100]

\* impl Default for SampleRate
SampleRateDefault == [kind |-> "DeviceDefault"]

\* impl Default for StreamOptions<Frame>, Frame = [sample; arity]
StreamOptionsDefault(sample, arity) ==
    [format            |-> FORMAT(sample),
     n_channels        |-> N_CHANNELS(arity),
     sample_rate       |-> SampleRateDefault,
     frames_per_buffer |-> None,
     callback          |-> "dummy_callback"]

\* StreamOptions { callback: .., ..Default::default() }
WithCallback(callback, base) == [base EXCEPT !.callback = callback]

-----------------------------------------------------------------------------
(* Initial state: no thread has called global_lock(), the lazy static is   *)
(* not yet initialized, nothing has been converted or built.               *)

Init ==
    /\ pc = [t \in Threads |-> "idle"]
    /\ once = "incomplete"
    /\ created = 0
    /\ everCalled = FALSE
    /\ owner = NoThread
    /\ poisoned = FALSE
    /\ result = [t \in Threads |-> "none"]
    /\ guards = [t \in Threads |-> 0]
    /\ panicMsg = [t \in Threads |-> ""]
    /\ conv = << >>
    /\ opts = NoOptions

-----------------------------------------------------------------------------
(* global_lock(): GLOBAL_LOCK.lock().expect(..)                            *)

\* A thread holding no guard calls global_lock().
CallGlobalLock(t) ==
    /\ pc[t] = "idle"
    /\ pc' = [pc EXCEPT ![t] = "deref"]
    /\ everCalled' = TRUE
    /\ UNCHANGED <<once, created, owner, poisoned, result, guards, panicMsg>>

\* Deref of GLOBAL_LOCK finds the Once incomplete: this thread initializes.
DerefInit(t) ==
    /\ pc[t] = "deref"
    /\ once = "incomplete"
    /\ once' = "running"
    /\ pc' = [pc EXCEPT ![t] = "initializing"]
    /\ UNCHANGED <<created, everCalled, owner, poisoned, result, guards, panicMsg>>

\* A static that is not lazy-once: every deref builds a mutex of its own.
InitDoneEveryDeref(t) ==
    /\ pc[t] \in {"initializing", "deref"}
    /\ created' = created + 1
    /\ once' = "complete"
    /\ pc' = [pc EXCEPT ![t] = "lock"]
    /\ UNCHANGED <<everCalled, owner, poisoned, result, guards, panicMsg>>

\* The initializer has run Mutex::new(()); the Once completes.
InitDone(t) ==
    /\ pc[t] = "initializing"
    /\ created' = created + 1
    /\ once' = "complete"
    /\ pc' = [pc EXCEPT ![t] = "lock"]
    /\ UNCHANGED <<everCalled, owner, poisoned, result, guards, panicMsg>>

\* Deref of GLOBAL_LOCK finds the Once complete (a thread that finds it
\* running waits here until it completes).
DerefReady(t) ==
    /\ pc[t] = "deref"
    /\ once = "complete"
    /\ pc' = [pc EXCEPT ![t] = "lock"]
    /\ UNCHANGED <<once, created, everCalled, owner, poisoned, result, guards, panicMsg>>

\* A lock that is not shared: lock() succeeds whoever holds the raw lock.
MutexLockNotShared(t) ==
    /\ pc[t] = "lock"
    /\ owner' = t
    /\ result' = [result EXCEPT ![t] = IF poisoned THEN "Err" ELSE "Ok"]
    /\ guards' = [guards EXCEPT ![t] = 1]
    /\ pc' = [pc EXCEPT ![t] = "expect"]
    /\ UNCHANGED <<once, created, everCalled, poisoned, panicMsg>>

\* GLOBAL_LOCK.lock(): blocks until the raw lock is free, takes it, and
\* returns Ok(guard), or Err(PoisonError(guard)) when the flag is set.
MutexLock(t) ==
    /\ pc[t] = "lock"
    /\ owner = NoThread
    /\ owner' = t
    /\ result' = [result EXCEPT ![t] = IF poisoned THEN "Err" ELSE "Ok"]
    /\ guards' = [guards EXCEPT ![t] = 1]
    /\ pc' = [pc EXCEPT ![t] = "expect"]
    /\ UNCHANGED <<once, created, everCalled, poisoned, panicMsg>>

\* Poisoning ignored: the guard is taken out of the PoisonError.
ExpectIntoInner(t) ==
    /\ pc[t] = "expect"
    /\ pc' = [pc EXCEPT ![t] = "guarded"]
    /\ result' = [result EXCEPT ![t] = "none"]
    /\ UNCHANGED <<once, created, everCalled, owner, poisoned, guards, panicMsg>>

\* .expect("A PortAudio host thread has panicked. Aborting."): Ok(guard)
\* is returned to the caller; Err panics with the message, the guard inside
\* the error still in scope.
Expect(t) ==
    /\ pc[t] = "expect"
    /\ IF result[t] = "Ok"
         THEN /\ pc' = [pc EXCEPT ![t] = "guarded"]
              /\ panicMsg' = panicMsg
         ELSE /\ pc' = [pc EXCEPT ![t] = "unwinding"]
              /\ panicMsg' = [panicMsg EXCEPT ![t] = ExpectMsg]
    /\ result' = [result EXCEPT ![t] = "none"]
    /\ UNCHANGED <<once, created, everCalled, owner, poisoned, guards>>

\* A reentrant lock: the holder's second lock() returns a second guard.
RelockReentrant(t) ==
    /\ pc[t] = "relock"
    /\ guards' = [guards EXCEPT ![t] = guards[t] + 1]
    /\ pc' = [pc EXCEPT ![t] = "guarded"]
    /\ UNCHANGED <<once, created, everCalled, owner, poisoned, result, panicMsg>>

\* The holder's second GLOBAL_LOCK.lock(): the Mutex is not reentrant and
\* the call never returns; whether it deadlocks or panics is unspecified.
Relock(t) ==
    /\ pc[t] = "relock"
    /\ \/ /\ pc' = [pc EXCEPT ![t] = "deadlocked"]
          /\ panicMsg' = panicMsg
       \/ /\ pc' = [pc EXCEPT ![t] = "unwinding"]
          /\ panicMsg' = [panicMsg EXCEPT ![t] = OtherMsg]
    /\ UNCHANGED <<once, created, everCalled, owner, poisoned, result, guards>>

-----------------------------------------------------------------------------
(* The callers of global_lock() and the guard's drop.                      *)

\* The caller, holding the guard, enters the native host-level call.
EnterNative(t) ==
    /\ pc[t] = "guarded"
    /\ pc' = [pc EXCEPT ![t] = "native"]
    /\ UNCHANGED <<once, created, everCalled, owner, poisoned, result, guards, panicMsg>>

\* The native call ends and the guard is dropped at once: the raw lock is
\* released, the poison flag untouched (the thread is not panicking).
LeaveNative(t) ==
    /\ pc[t] = "native"
    /\ owner' = NoThread
    /\ guards' = [guards EXCEPT ![t] = 0]
    /\ pc' = [pc EXCEPT ![t] = "idle"]
    /\ UNCHANGED <<once, created, everCalled, poisoned, result, panicMsg>>

\* The caller calls global_lock() again while it still holds the guard.
ReenterGlobalLock(t) ==
    /\ pc[t] = "guarded"
    /\ pc' = [pc EXCEPT ![t] = "relock"]
    /\ UNCHANGED <<once, created, everCalled, owner, poisoned, result, guards, panicMsg>>

\* The thread panics while it holds the guard.
HolderPanics(t) ==
    /\ pc[t] \in {"guarded", "native"}
    /\ pc' = [pc EXCEPT ![t] = "unwinding"]
    /\ panicMsg' = [panicMsg EXCEPT ![t] = OtherMsg]
    /\ UNCHANGED <<once, created, everCalled, owner, poisoned, result, guards>>

\* Unwinding drops the guard; the drop first marks the mutex poisoned,
\* because the thread is panicking ...
UnwindPoison(t) ==
    /\ pc[t] = "unwinding"
    /\ poisoned' = TRUE
    /\ pc' = [pc EXCEPT ![t] = "unlocking"]
    /\ UNCHANGED <<once, created, everCalled, owner, result, guards, panicMsg>>

\* ... and then releases the raw lock; the thread is gone.
UnwindUnlock(t) ==
    /\ pc[t] = "unlocking"
    /\ owner' = NoThread
    /\ guards' = [guards EXCEPT ![t] = 0]
    /\ pc' = [pc EXCEPT ![t] = "dead"]
    /\ UNCHANGED <<once, created, everCalled, poisoned, result, panicMsg>>

-----------------------------------------------------------------------------
(* Conversions and option construction, applied to every input.            *)

\* PaSampleFormat::try_from(format); the last two conversions are kept.
Convert(format) ==
    /\ conv' = SubSeq(<<[format |-> format, result |-> TryFrom(format)]>> \o conv,
                      1, IF Len(conv) = 0 THEN 1 ELSE 2)
    /\ UNCHANGED opts

\* StreamOptions::<[sample; arity]>::default()
BuildDefault(sample, arity) ==
    /\ opts' = [built |-> TRUE, sample |-> sample, arity |-> arity,
                override |-> FALSE,
                options |-> StreamOptionsDefault(sample, arity)]
    /\ UNCHANGED conv

\* StreamOptions { callback: Box::new(my_stream_callback), ..Default::default() }
BuildWithCallback(sample, arity) ==
    /\ opts' = [built |-> TRUE, sample |-> sample, arity |-> arity,
                override |-> TRUE,
                options |-> WithCallback("my_stream_callback",
                                         StreamOptionsDefault(sample, arity))]
    /\ UNCHANGED conv

-----------------------------------------------------------------------------
LockNext ==
    /\ \E t \in Threads :
          \/ CallGlobalLock(t)
          \/ DerefInit(t)
          \/ InitDone(t)
          \/ DerefReady(t)
          \/ MutexLock(t)
          \/ Expect(t)
          \/ Relock(t)
          \/ EnterNative(t)
          \/ LeaveNative(t)
          \/ ReenterGlobalLock(t)
          \/ HolderPanics(t)
          \/ UnwindPoison(t)
          \/ UnwindUnlock(t)
    /\ UNCHANGED pureVars

PureNext ==
    /\ \/ \E format \in Format : Convert(format)
       \/ \E sample \in Samples, arity \in Arities : BuildDefault(sample, arity)
       \/ \E sample \in Samples, arity \in Arities : BuildWithCallback(sample, arity)
    /\ UNCHANGED lockVars

Next == LockNext \/ PureNext

\* The whole program.
Spec == Init /\ [][Next]_vars

\* The lock alone, and the pure functions alone.
LockSpec == Init /\ [][LockNext]_vars
PureSpec == Init /\ [][PureNext]_vars

\* What the scheduler guarantees: a thread that can take its next step
\* inside global_lock(), into its native call or while unwinding takes it.
\* Calling global_lock(), the native call returning, panicking and
\* re-entering are never forced; lock() promises no order among waiters.
Progress(t) ==
    /\ WF_lockVars(DerefInit(t))
    /\ WF_lockVars(InitDone(t))
    /\ WF_lockVars(DerefReady(t))
    /\ WF_lockVars(MutexLock(t))
    /\ WF_lockVars(Expect(t))
    /\ WF_lockVars(EnterNative(t))
    /\ WF_lockVars(UnwindPoison(t))
    /\ WF_lockVars(UnwindUnlock(t))

FairSpec == LockSpec /\ \A t \in Threads : Progress(t)

-----------------------------------------------------------------------------
(* Properties.                                                             *)

GuardHolders == {t \in Threads : guards[t] > 0}
InNative == {t \in Threads : pc[t] = "native"}

\* C1: at most one thread holds the guard of the global lock, and a thread
\* inside a guarded native host-level call holds it, so no two threads are
\* inside such a call at the same time.
C1_Serialized ==
    /\ Cardinality(GuardHolders) <= 1
    /\ Cardinality(InNative) <= 1
    /\ InNative \subseteq GuardHolders

\* One thread is inside the native call while the others wait in lock().
C1_Witness ==
    \E t \in Threads :
        /\ pc[t] = "native"
        /\ \A u \in Threads \ {t} : pc[u] = "lock"

\* The native code each mapped variant is expected to convert to.
ExpectedNative ==
    [f \in Format |->
        CASE f = "F32" -> "paFloat32"
          [] f = "I32" -> "paInt32"
          [] f = "I24" -> "paInt24"
          [] f = "I16" -> "paInt16"
          [] f = "I8"  -> "paInt8"
          [] f = "U8"  -> "paUInt8"]

\* C2: converting any of the six Format variants succeeds and yields the
\* expected native code (F32 -> paFloat32, I32 -> paInt32, I24 -> paInt24,
\* I16 -> paInt16, I8 -> paInt8, U8 -> paUInt8); none yields an error.
C2_MappedConversion ==
    \A i \in 1..Len(conv) :
        /\ conv[i].result.ok
        /\ conv[i].result.value = ExpectedNative[conv[i].format]

\* The 8-bit unsigned and the 24-bit variants have both been converted.
C2_Witness ==
    /\ Len(conv) = 2
    /\ conv[1].format = "U8"
    /\ conv[1].result = [ok |-> TRUE, value |-> "paUInt8"]
    /\ conv[2].format = "I24"
    /\ conv[2].result = [ok |-> TRUE, value |-> "paInt24"]

\* C4: two distinct Format variants that both convert successfully convert
\* to distinct native codes.
C4_OneToOne ==
    \A i, j \in 1..Len(conv) :
        (/\ conv[i].format # conv[j].format
         /\ conv[i].result.ok
         /\ conv[j].result.ok)
        => conv[i].result.value # conv[j].result.value

\* Two distinct variants have been converted, both successfully.
C4_Witness ==
    /\ Len(conv) = 2
    /\ conv[1].format = "I32"
    /\ conv[2].format = "I24"
    /\ conv[1].result.ok
    /\ conv[2].result.ok

\* C5: the default n_channels is the arity of the frame array type: 1 for
\* [T; 1] and 2 for [T; 2], whatever the sample type T.
C5_DefaultNChannels ==
    (opts.built /\ ~opts.override) =>
        /\ opts.arity = 1 => opts.options.n_channels = 1
        /\ opts.arity = 2 => opts.options.n_channels = 2

\* StreamOptions::<[i16; 2]>::default() has been built.
C5_Witness ==
    /\ opts.built
    /\ ~opts.override
    /\ opts.sample = "i16"
    /\ opts.arity = 2
    /\ opts.options.n_channels = 2

\* C6: the default format is the sample type's declared default format,
\* whatever the channel count: F32 for f32 samples, I16 for i16 samples,
\* also when only the callback is overridden with ..Default::default().
C6_DefaultFormat ==
    opts.built =>
        /\ opts.sample = "f32" => opts.options.format = "F32"
        /\ opts.sample = "i16" => opts.options.format = "I16"

\* A mono i16 StreamOptions has been built with only its callback overridden.
C6_Witness ==
    /\ opts.built
    /\ opts.override
    /\ opts.sample = "i16"
    /\ opts.arity = 1
    /\ opts.options.callback = "my_stream_callback"
    /\ opts.options.format = "I16"

\* C10: for every frame type, StreamOptions::default() has sample_rate
\* SampleRate::DeviceDefault, which is also SampleRate::default(), and
\* frames_per_buffer None.
C10_FrameIndependentDefaults ==
    /\ SampleRateDefault = [kind |-> "DeviceDefault"]
    /\ (opts.built /\ ~opts.override) =>
          /\ opts.options.sample_rate = [kind |-> "DeviceDefault"]
          /\ opts.options.frames_per_buffer = [some |-> FALSE]

\* StreamOptions::<[f32; 1]>::default() has been built.
C10_Witness ==
    /\ opts.built
    /\ ~opts.override
    /\ opts.sample = "f32"
    /\ opts.arity = 1
    /\ opts.options.frames_per_buffer = [some |-> FALSE]

\* Positions in which a thread has the lock's reference, past the deref.
PastDeref == {"lock", "expect", "guarded", "native", "relock", "deadlocked",
              "unwinding", "unlocking"}

\* Positions in which a thread holds no guard: outside any guarded call, or
\* still on its way to the lock.
Unguarded == {"idle", "deref", "initializing", "lock", "dead"}

\* C7: the lock is created exactly once, by the first call of global_lock(),
\* and every call uses that lock; the caller holds it for the whole of its
\* guarded call; and a thread that is not between lock() and the drop of
\* its guard does not hold it, so the lock is free when no guarded call is
\* in progress.
C7_Lifecycle ==
    /\ created <= 1
    /\ (created = 1) <=> (once = "complete")
    /\ (once # "incomplete") => everCalled
    /\ \A t \in Threads : pc[t] \in PastDeref => created = 1
    /\ \A t \in Threads : pc[t] \in {"guarded", "native"} => (owner = t /\ guards[t] = 1)
    /\ \A t \in Threads : pc[t] \in Unguarded => (owner # t /\ guards[t] = 0)
    /\ (\A t \in Threads : pc[t] \in Unguarded) => owner = NoThread

\* The lock has been created, used for a guarded call and released: every
\* thread is back outside global_lock() and the lock is free.
C7_Witness ==
    /\ created = 1
    /\ owner = NoThread
    /\ ~poisoned
    /\ \A t \in Threads : pc[t] = "idle"

\* C8: a thread that panics while holding the guard poisons the lock before
\* it releases it; the lock stays poisoned; from then on no thread is given
\* the guard or enters a guarded native call, and a thread inside
\* global_lock() can leave it only by panicking with the expect message.
C8_PoisonedForEver ==
    [][/\ poisoned => poisoned'
       /\ (\E t \in Threads : pc'[t] \in {"unlocking", "dead"}) => poisoned'
       /\ poisoned' => \A t \in Threads : pc'[t] \notin {"guarded", "native"}
       /\ \A t \in Threads :
             (poisoned /\ pc[t] \in {"idle", "deref", "lock", "expect"}) =>
                 /\ pc'[t] \in {"idle", "deref", "lock", "expect", "unwinding"}
                 /\ pc'[t] = "unwinding" => panicMsg'[t] = ExpectMsg
      ]_vars

\* A holder has panicked and is gone, and a later caller of global_lock()
\* has panicked with the expect message.
C8_Witness ==
    /\ poisoned
    /\ \E t, u \in Threads :
          /\ pc[t] = "dead"
          /\ panicMsg[t] = OtherMsg
          /\ pc[u] \in {"unwinding", "unlocking", "dead"}
          /\ panicMsg[u] = ExpectMsg

\* No thread has panicked or called global_lock() while holding the guard.
NoAbnormal ==
    \A t \in Threads :
        pc[t] \notin {"relock", "deadlocked", "unwinding", "unlocking", "dead"}

=============================================================================
